---- MODULE Spec2Model ----
(***************************************************************************)
(* OncoSense API (app.py): the module-level model bootstrap, the /health   *)
(* and /predict handlers, and the scoring functions they call.             *)
(*                                                                         *)
(* Numbers.  Probabilities and weights are fixed-point integers in units   *)
(* of 1/100000 (0.05 is 5000, 1.0 is ONE).  JSON numbers, temperatures     *)
(* included, are integers in tenths (38.0 is 380, the integer 6 is 60,     *)
(* 6.9 is 69).  Sums are exact: the binary rounding error of Python's      *)
(* float addition (about 1e-16) is not modelled.  A float is a record      *)
(* [nan, v]; every comparison with a NaN is false, as in Python.           *)
(***************************************************************************)
EXTENDS Integers, FiniteSets, TLC

VARIABLES boot, MODEL_KIND, LEUK_MODEL, loadAttempts, pc, body, outcome, resp

vars == <<boot, MODEL_KIND, LEUK_MODEL, loadAttempts, pc, body, outcome, resp>>

\* ------------------------------------------------------------------ bounds
\* Symptom flags sent by a client range over -1 .. MaxFlag.
MaxFlag == 5

\* The literal 1 / 1.0 of clamp01, in units of 1/100000.
ONE == 100000

Threads == {1, 2}

\* ------------------------------------------------------- JSON request data
Keys == {"age", "fever", "pulse", "pallor", "bruises", "weight_loss",
         "fatigue", "night_sweats", "frequent_infections", "bone_pain",
         "fever_temp_c", "temperature_c"}

\* A JSON value under a key.  "num" is a JSON number or a numeric string (both
\* go through float()), v in tenths; "bool" is true/false (v = 1/0); "null" is
\* JSON null; "str" is a non-numeric string such as "yes"; "nan" is NaN.
Absent == [k |-> "absent", v |-> 0]
Num(n) == [k |-> "num", v |-> n]
Bool(b) == [k |-> "bool", v |-> IF b THEN 1 ELSE 0]
Null == [k |-> "null", v |-> 0]
Junk == [k |-> "str", v |-> 0]
NaNv == [k |-> "nan", v |-> 0]

EmptyObj == [k \in Keys |-> Absent]

\* A request body: a JSON object, a falsy JSON value (null, 0, "", []), a
\* truthy JSON number, or bytes that are not JSON.
Obj(o) == [kind |-> "object", obj |-> o]
FalsyBody == [kind |-> "falsy", obj |-> EmptyObj]
ScalarBody == [kind |-> "scalar", obj |-> EmptyObj]
MalformedBody == [kind |-> "malformed", obj |-> EmptyObj]

\* ----------------------------------------------------------------- floats
Flt(n) == [nan |-> FALSE, v |-> n]
NaN == [nan |-> TRUE, v |-> 0]
FLt(x, c) == ~x.nan /\ x.v < c
FGt(x, c) == ~x.nan /\ x.v > c
FGe(x, c) == ~x.nan /\ x.v >= c

\* float(x) of a JSON value: [ok, f]; ok = FALSE is a raised exception.
PyFloat(x) ==
  CASE x.k = "num" -> [ok |-> TRUE, f |-> Flt(x.v)]
    [] x.k = "bool" -> [ok |-> TRUE, f |-> Flt(10 * x.v)]
    [] x.k = "nan" -> [ok |-> TRUE, f |-> NaN]
    [] OTHER -> [ok |-> FALSE, f |-> Flt(0)]

\* int(f) of a finite float in tenths: truncation toward zero.
PyInt(n) == IF n >= 0 THEN n \div 10 ELSE -((-n) \div 10)

\* d.get(k, default) raises on a body that has no .get (a number).
HasGet(b) == b.kind \in {"object", "falsy"}

geti(b, k, default) ==
  IF ~HasGet(b) THEN default
  ELSE IF b.obj[k].k = "absent" THEN default
  ELSE LET r == PyFloat(b.obj[k])
       IN IF ~r.ok \/ r.f.nan THEN default ELSE PyInt(r.f.v)

getf(b, k, default) ==
  IF ~HasGet(b) THEN default
  ELSE IF b.obj[k].k = "absent" THEN default
  ELSE LET r == PyFloat(b.obj[k])
       IN IF ~r.ok THEN default ELSE r.f

\* clamp01 without its upper arm.
clamp01_unbounded(x) == IF x < 0 THEN 0 ELSE x

clamp01(x) == IF x < 0 THEN 0 ELSE IF x > ONE THEN ONE ELSE x

\* grade with the 0.72 / 0.40 pair.
grade_7240(p) == IF p >= 72000 THEN "High" ELSE IF p >= 40000 THEN "Medium" ELSE "Low"

grade(p) == IF p >= 66000 THEN "High" ELSE IF p >= 33000 THEN "Medium" ELSE "Low"

temp_component(temp_c) ==
  IF FLt(temp_c, 380) THEN 0
  ELSE IF FLt(temp_c, 390) THEN 18000
  ELSE IF FLt(temp_c, 400) THEN 30000
  ELSE 45000

\* pulse_component with the two upper bands exchanged.
pulse_component_swapped(pulse) ==
  IF pulse >= 120 THEN 15000
  ELSE IF pulse >= 100 THEN 25000
  ELSE IF pulse >= 90 THEN 5000
  ELSE 0

\* pulse_component with the lowest band starting above 90.
pulse_component_strict(pulse) ==
  IF pulse >= 120 THEN 25000
  ELSE IF pulse >= 100 THEN 15000
  ELSE IF pulse > 90 THEN 5000
  ELSE 0

pulse_component(pulse) ==
  IF pulse >= 120 THEN 25000
  ELSE IF pulse >= 100 THEN 15000
  ELSE IF pulse >= 90 THEN 5000
  ELSE 0

\* round(x, 4): to the nearest multiple of 10 units, ties to the even one.
Round4(x) ==
  LET q == x \div 10
      r == x % 10
  IN  IF r < 5 THEN 10 * q
      ELSE IF r > 5 THEN 10 * (q + 1)
      ELSE IF q % 2 = 0 THEN 10 * q ELSE 10 * (q + 1)

\* ------------------------------------------------- /predict, lines 117-134
\* request.get_json(force=True) or {}: Flask raises BadRequest (400) on bytes
\* that are not JSON; a falsy JSON value becomes {}.
get_json(b) ==
  IF b.kind = "malformed" THEN [ok |-> FALSE, data |-> b]
  ELSE IF b.kind = "falsy" THEN [ok |-> TRUE, data |-> Obj(EmptyObj)]
  ELSE [ok |-> TRUE, data |-> b]

\* "fever" in data; evaluated only on a body that supports `in`.
HasFever(d) == d.obj["fever"].k # "absent"

temp_of(d) == getf(d, "fever_temp_c", getf(d, "temperature_c", Flt(0)))

\* fever_of without the test for the key: a positive temperature always wins.
fever_of_temp_first(d) ==
  IF FGt(temp_of(d), 0)
  THEN (IF FGe(temp_of(d), 380) THEN 1 ELSE 0)
  ELSE geti(d, "fever", 0)

\* Lines 121-123: the coerced flag, replaced by the temperature-derived one
\* only if the key is missing and a positive temperature was sent.
fever_of(d) ==
  IF ~HasFever(d) /\ FGt(temp_of(d), 0)
  THEN (IF FGe(temp_of(d), 380) THEN 1 ELSE 0)
  ELSE geti(d, "fever", 0)

Features(d) ==
  [age |-> geti(d, "age", 8),
   fever |-> fever_of(d),
   temp_c |-> temp_of(d),
   pulse |-> geti(d, "pulse", 90),
   pallor |-> geti(d, "pallor", 0),
   bruis |-> geti(d, "bruises", 0),
   wloss |-> geti(d, "weight_loss", 0),
   fatigue |-> geti(d, "fatigue", 0),
   nsweats |-> geti(d, "night_sweats", 0),
   infections |-> geti(d, "frequent_infections", 0),
   bone |-> geti(d, "bone_pain", 0)]

\* ------------------------------------------------------- heuristic scorer
ContribNames == {"w_temperature", "w_fever_flag", "w_pallor", "w_bruises",
                 "w_weight_loss", "w_pulse", "w_young_age", "w_fatigue",
                 "w_night_sweats", "w_infections", "w_bone_pain"}

NoDetails == [n \in ContribNames |-> 0]

contrib(f) ==
  [w_temperature |-> temp_component(f.temp_c),
   w_fever_flag |-> 5000 * f.fever,
   w_pallor |-> 20000 * f.pallor,
   w_bruises |-> 20000 * f.bruis,
   w_weight_loss |-> 20000 * f.wloss,
   w_pulse |-> pulse_component(f.pulse),
   w_young_age |-> IF f.age <= 6 THEN 5000 ELSE 0,
   w_fatigue |-> 5000 * f.fatigue,
   w_night_sweats |-> 5000 * f.nsweats,
   w_infections |-> 10000 * f.infections,
   w_bone_pain |-> 15000 * f.bone]

total(c) ==
  c.w_temperature + c.w_fever_flag + c.w_pallor + c.w_bruises + c.w_weight_loss
  + c.w_pulse + c.w_young_age + c.w_fatigue + c.w_night_sweats + c.w_infections
  + c.w_bone_pain

rule_based_prob(f) == [prob |-> clamp01(total(contrib(f))), details |-> contrib(f)]

\* ------------------------------------------------------------- classifier
\* A loaded artifact is a fixed function of the six core features.  The
\* artifact is data outside the repository: the load picks one of a family of
\* linear scorers, whose output may leave [0,1].
NoModel == [some |-> FALSE, bias |-> 0, w |-> 0]
Models == {[some |-> TRUE, bias |-> 41237, w |-> 30001],
           [some |-> TRUE, bias |-> 0 - 20004, w |-> 0]}

model_predict(m, f) == m.bias + m.w * (f.fever + f.pallor + f.bruis + f.wloss)

adj(f) ==
  5000 * f.fatigue + 5000 * f.nsweats + 10000 * f.infections + 15000 * f.bone
  + temp_component(f.temp_c) \div 4

\* ------------------------------------------------------------- responses
\* One record shape for every response; `kind` says which fields are sent.
\* prob is the unrounded probability the label was graded from.
NoResp ==
  [kind |-> "none", status |-> 0, prob |-> 0, risk |-> 0, class_name |-> "",
   used_model |-> "null", model_prob |-> 0, details |-> NoDetails,
   model_kind |-> ""]

error_response(code) == [NoResp EXCEPT !.kind = "error", !.status = code]

health_response(kind) ==
  [NoResp EXCEPT !.kind = "health", !.status = 200, !.model_kind = kind]

\* Lines 148-155.
classifier_response(f, base_prob, used) ==
  LET prob == clamp01(base_prob + adj(f))
  IN  [NoResp EXCEPT !.kind = "classifier", !.status = 200, !.prob = prob,
                     !.risk = Round4(prob), !.class_name = grade(prob),
                     !.model_prob = Round4(base_prob), !.used_model = used]

\* Lines 157-166.
heuristic_response(f) ==
  LET rb == rule_based_prob(f)
  IN  [NoResp EXCEPT !.kind = "heuristic", !.status = 200, !.prob = rb.prob,
                     !.risk = Round4(rb.prob), !.class_name = grade(rb.prob),
                     !.details = rb.details]

\* ------------------------------------------------------- request bodies
\* Values a client may send under key k, band edges and unparseable values
\* included.
KeyVals(k) ==
  IF k = "age" THEN {Num(60), Num(69), Num(70), Junk}
  ELSE IF k = "pulse"
    THEN {Num(890), Num(900), Num(999), Num(1000), Num(1190), Num(1200)}
  ELSE IF k \in {"fever_temp_c", "temperature_c"}
    THEN {Num(379), Num(380), Num(389), Num(390), Num(399), Num(400),
          Num(0 - 10), NaNv, Junk}
  ELSE {Num(10 * i) : i \in (0 - 1) .. MaxFlag}
       \cup {Bool(TRUE), Bool(FALSE), Junk, Null}

Obj1(k, v) == [EmptyObj EXCEPT ![k] = v]
Obj2(k1, v1, k2, v2) == [EmptyObj EXCEPT ![k1] = v1, ![k2] = v2]

\* Every object with at most two keys present.
TwoKeyObjs ==
  UNION { UNION { { Obj2(k1, v1, k2, v2) :
                      v1 \in KeyVals(k1) \cup {Absent},
                      v2 \in KeyVals(k2) \cup {Absent} } :
                  k2 \in Keys \ {k1} } :
          k1 \in Keys }

Bodies == {MalformedBody, FalsyBody, ScalarBody} \cup {Obj(o) : o \in TwoKeyObjs}

\* {age:8, pulse:90, fever:0, pallor:0, bruises:0, weight_loss:0}
Scenario1 ==
  Obj([EmptyObj EXCEPT !["age"] = Num(80), !["pulse"] = Num(900),
                       !["fever"] = Num(0), !["pallor"] = Num(0),
                       !["bruises"] = Num(0), !["weight_loss"] = Num(0)])

\* {fever: false, fever_temp_c: 39.0}
FeverFalseTemp39 == Obj(Obj2("fever", Bool(FALSE), "fever_temp_c", Num(390)))

\* The bodies of the concurrent server: one pulse or one temperature on each
\* side of every band edge, and the bodies the scenarios name.
SmallBodies ==
  {MalformedBody, FalsyBody, ScalarBody, Obj(EmptyObj), Scenario1, FeverFalseTemp39}
  \cup {Obj(Obj1("pulse", v)) : v \in KeyVals("pulse")}
  \cup {Obj(Obj1("temperature_c", Num(n))) : n \in {379, 380, 389, 390, 399, 400}}
  \cup {Obj(Obj2("pulse", Num(999), "temperature_c", Num(389))),
        Obj(Obj2("pulse", Num(1000), "temperature_c", Num(390)))}

NoRequest == [kind |-> "none", obj |-> EmptyObj]

\* ------------------------------------------------------------------ state
Init ==
  /\ boot = "init"
  /\ MODEL_KIND = "rule_based"
  /\ LEUK_MODEL = NoModel
  /\ loadAttempts = 0
  /\ pc = [t \in Threads |-> "idle"]
  /\ body = [t \in Threads |-> NoRequest]
  /\ outcome = [t \in Threads |-> "none"]
  /\ resp = [t \in Threads |-> NoResp]

\* Lines 12-27, run once when the module is imported, before any request is
\* served: no file, a load that succeeds, or a load that raises.
Bootstrap ==
  /\ boot = "init"
  /\ boot' = "done"
  /\ \/ /\ MODEL_KIND' = "rule_based"
        /\ LEUK_MODEL' = NoModel
        /\ loadAttempts' = loadAttempts
     \/ /\ \E m \in Models : LEUK_MODEL' = m
        /\ MODEL_KIND' = "leukemia_h5"
        /\ loadAttempts' = loadAttempts + 1
     \/ /\ MODEL_KIND' = "rule_based"
        /\ LEUK_MODEL' = NoModel
        /\ loadAttempts' = loadAttempts + 1
  /\ UNCHANGED <<pc, body, outcome, resp>>

\* GET /health, lines 111-113.
Health(t) ==
  /\ boot = "done"
  /\ pc[t] = "idle"
  /\ pc' = [pc EXCEPT ![t] = "done"]
  /\ resp' = [resp EXCEPT ![t] = health_response(MODEL_KIND)]
  /\ UNCHANGED <<boot, MODEL_KIND, LEUK_MODEL, loadAttempts, body, outcome>>

\* A POST /predict with body b reaches a worker.
Receive(t, B) ==
  /\ boot = "done"
  /\ pc[t] = "idle"
  /\ \E b \in B : body' = [body EXCEPT ![t] = b]
  /\ pc' = [pc EXCEPT ![t] = "recv"]
  /\ UNCHANGED <<boot, MODEL_KIND, LEUK_MODEL, loadAttempts, outcome, resp>>

Data(t) == get_json(body[t]).data

\* Lines 117-134: BadRequest from get_json is a 400; on a JSON number every
\* get falls back to its default and `"fever" not in data` raises TypeError,
\* a 500.
Parse(t) ==
  /\ pc[t] = "recv"
  /\ IF ~get_json(body[t]).ok
       THEN /\ resp' = [resp EXCEPT ![t] = error_response(400)]
            /\ pc' = [pc EXCEPT ![t] = "done"]
     ELSE IF Data(t).kind = "scalar"
       THEN /\ resp' = [resp EXCEPT ![t] = error_response(500)]
            /\ pc' = [pc EXCEPT ![t] = "done"]
     ELSE /\ resp' = resp
          /\ pc' = [pc EXCEPT ![t] = "select"]
  /\ UNCHANGED <<boot, MODEL_KIND, LEUK_MODEL, loadAttempts, body, outcome>>

\* Lines 137-139, and 157-166 when the model is not there.
Select(t) ==
  /\ pc[t] = "select"
  /\ IF MODEL_KIND = "leukemia_h5" /\ LEUK_MODEL.some
       THEN /\ pc' = [pc EXCEPT ![t] = "infer"]
            /\ resp' = resp
       ELSE /\ pc' = [pc EXCEPT ![t] = "done"]
            /\ resp' = [resp EXCEPT ![t] = heuristic_response(Features(Data(t)))]
  /\ UNCHANGED <<boot, MODEL_KIND, LEUK_MODEL, loadAttempts, body, outcome>>

\* Infer with the exception escaping the handler: a 500.
Infer_propagates(t) ==
  /\ pc[t] = "infer"
  /\ \/ /\ LEUK_MODEL.some
        /\ outcome' = [outcome EXCEPT ![t] = "returned"]
        /\ resp' = [resp EXCEPT ![t] =
             classifier_response(Features(Data(t)),
                                 model_predict(LEUK_MODEL, Features(Data(t))),
                                 MODEL_KIND)]
     \/ /\ outcome' = [outcome EXCEPT ![t] = "raised"]
        /\ resp' = [resp EXCEPT ![t] = error_response(500)]
  /\ pc' = [pc EXCEPT ![t] = "done"]
  /\ UNCHANGED <<boot, MODEL_KIND, LEUK_MODEL, loadAttempts, body>>

\* Infer with a reload of the artifact after a raised invocation.
Infer_reloads(t) ==
  /\ pc[t] = "infer"
  /\ \/ /\ LEUK_MODEL.some
        /\ outcome' = [outcome EXCEPT ![t] = "returned"]
        /\ resp' = [resp EXCEPT ![t] =
             classifier_response(Features(Data(t)),
                                 model_predict(LEUK_MODEL, Features(Data(t))),
                                 MODEL_KIND)]
        /\ UNCHANGED <<MODEL_KIND, LEUK_MODEL, loadAttempts>>
     \/ /\ outcome' = [outcome EXCEPT ![t] = "raised"]
        /\ resp' = [resp EXCEPT ![t] = heuristic_response(Features(Data(t)))]
        /\ \E m \in Models : LEUK_MODEL' = m
        /\ MODEL_KIND' = "leukemia_h5"
        /\ loadAttempts' = loadAttempts + 1
  /\ pc' = [pc EXCEPT ![t] = "done"]
  /\ UNCHANGED <<boot, body>>

\* Infer dropping the model for good after a raised invocation.
Infer_gives_up(t) ==
  /\ pc[t] = "infer"
  /\ \/ /\ LEUK_MODEL.some
        /\ outcome' = [outcome EXCEPT ![t] = "returned"]
        /\ resp' = [resp EXCEPT ![t] =
             classifier_response(Features(Data(t)),
                                 model_predict(LEUK_MODEL, Features(Data(t))),
                                 MODEL_KIND)]
        /\ UNCHANGED <<MODEL_KIND, LEUK_MODEL>>
     \/ /\ outcome' = [outcome EXCEPT ![t] = "raised"]
        /\ resp' = [resp EXCEPT ![t] = heuristic_response(Features(Data(t)))]
        /\ MODEL_KIND' = "rule_based"
        /\ LEUK_MODEL' = NoModel
  /\ pc' = [pc EXCEPT ![t] = "done"]
  /\ UNCHANGED <<boot, loadAttempts, body>>

\* Lines 140-166: the invocation returns a number (148-155) or raises, which
\* is printed and leaves model_prob None (157-166).
Infer(t) ==
  /\ pc[t] = "infer"
  /\ \/ /\ LEUK_MODEL.some
        /\ outcome' = [outcome EXCEPT ![t] = "returned"]
        /\ resp' = [resp EXCEPT ![t] =
             classifier_response(Features(Data(t)),
                                 model_predict(LEUK_MODEL, Features(Data(t))),
                                 MODEL_KIND)]
     \/ /\ outcome' = [outcome EXCEPT ![t] = "raised"]
        /\ resp' = [resp EXCEPT ![t] = heuristic_response(Features(Data(t)))]
  /\ pc' = [pc EXCEPT ![t] = "done"]
  /\ UNCHANGED <<boot, MODEL_KIND, LEUK_MODEL, loadAttempts, body>>

\* The response has been sent; the worker takes the next request.
Return(t) ==
  /\ pc[t] = "done"
  /\ pc' = [pc EXCEPT ![t] = "idle"]
  /\ body' = [body EXCEPT ![t] = NoRequest]
  /\ outcome' = [outcome EXCEPT ![t] = "none"]
  /\ resp' = [resp EXCEPT ![t] = NoResp]
  /\ UNCHANGED <<boot, MODEL_KIND, LEUK_MODEL, loadAttempts>>

\* The server with concurrent workers.
Next ==
  \/ Bootstrap
  \/ \E t \in Threads : Health(t)
  \/ \E t \in Threads : Receive(t, SmallBodies)
  \/ \E t \in Threads : Parse(t)
  \/ \E t \in Threads : Select(t)
  \/ \E t \in Threads : Infer(t)
  \/ \E t \in Threads : Return(t)

Spec == Init /\ [][Next]_vars

\* One worker serving one request at a time, over every body of Bodies.
NextScore ==
  \/ Bootstrap
  \/ Health(1)
  \/ Receive(1, Bodies)
  \/ Parse(1)
  \/ Select(1)
  \/ Infer(1)
  \/ Return(1)

SpecScore == Init /\ [][NextScore]_vars

\* ------------------------------------------------------------- properties
Scored(t) == pc[t] = "done" /\ resp[t].kind \in {"classifier", "heuristic"}
Available == MODEL_KIND = "leukemia_h5" /\ LEUK_MODEL.some

C2_FallbackToHeuristic ==
  \A t \in Threads :
    (/\ pc[t] = "done"
     /\ body[t].kind \in {"object", "falsy"}
     /\ (~Available \/ outcome[t] = "raised"))
    => /\ resp[t].status = 200
       /\ resp[t].kind = "heuristic"
       /\ resp[t].used_model = "null"
       /\ resp[t].details = contrib(Features(Data(t)))
       /\ resp[t].prob = clamp01(total(resp[t].details))

\* A model was loaded and its invocation raised in a finished request.
C2_Witness ==
  \E t \in Threads : pc[t] = "done" /\ Available /\ outcome[t] = "raised"

\* C3: the load is attempted at most once, and once the bootstrap has ended
\* no step changes MODEL_KIND, LEUK_MODEL or the number of load attempts.
C3_LoadAtMostOnce ==
  [][/\ loadAttempts' <= 1
     /\ boot = "done" => UNCHANGED <<MODEL_KIND, LEUK_MODEL, loadAttempts>>]_vars

\* One request has fallen back after a raised invocation while another is
\* about to invoke the model.
C3_Witness ==
  /\ loadAttempts = 1
  /\ pc[1] = "done" /\ outcome[1] = "raised"
  /\ pc[2] = "infer"

\* C4: with a "fever" key in the body the flag scored is the one coerced from
\* the key, whatever the temperature; without it the flag is 1 when the
\* temperature is at least 38.0 and 0 otherwise.
C4_Fever(d) ==
  IF d.obj["fever"].k # "absent" THEN geti(d, "fever", 0)
  ELSE IF FGe(temp_of(d), 380) THEN 1 ELSE 0

C4_ExplicitFeverWins ==
  \A t \in Threads :
    /\ (Scored(t) /\ resp[t].kind = "heuristic")
         => resp[t].details.w_fever_flag = 5000 * C4_Fever(Data(t))
    /\ (Scored(t) /\ resp[t].kind = "classifier")
         => resp[t].model_prob =
              Round4(model_predict(LEUK_MODEL,
                       [Features(Data(t)) EXCEPT !.fever = C4_Fever(Data(t))]))

\* {fever: false, fever_temp_c: 39.0} scored with fever 0 and the 39-degree
\* temperature band.
C4_Witness ==
  \E t \in Threads :
    /\ Scored(t)
    /\ body[t] = FeverFalseTemp39
    /\ resp[t].kind = "heuristic"
    /\ resp[t].details.w_fever_flag = 0
    /\ resp[t].details.w_temperature = 30000

\* C5 as stated: High from 0.72, Medium from 0.40, on both paths.
C5_Original ==
  \A t \in Threads :
    Scored(t) =>
      resp[t].class_name = (IF resp[t].prob >= 72000 THEN "High"
                            ELSE IF resp[t].prob >= 40000 THEN "Medium"
                            ELSE "Low")

\* C5, amended: High from 0.66, Medium from 0.33, Low below, the same pair
\* on the classifier path and the heuristic path.
C5_Thresholds ==
  \A t \in Threads :
    Scored(t) =>
      resp[t].class_name = (IF resp[t].prob >= 66000 THEN "High"
                            ELSE IF resp[t].prob >= 33000 THEN "Medium"
                            ELSE "Low")

\* A verdict between the two High thresholds.
C5_Witness ==
  \E t \in Threads :
    /\ Scored(t)
    /\ resp[t].prob >= 66000 /\ resp[t].prob < 72000
    /\ resp[t].class_name = "High"

\* C6 as stated: two finished /predict requests with the same body carry the
\* same response, whether or not an invocation raised.
C6_Original ==
  \A t1, t2 \in Threads :
    (/\ pc[t1] = "done" /\ pc[t2] = "done"
     /\ body[t1].kind # "none"
     /\ body[t1] = body[t2])
    => resp[t1] = resp[t2]

\* C6, amended: two finished /predict requests with the same body, whose
\* classifier invocation raised in both or in neither, carry the same
\* response, whatever happened in other requests.
C6_SameBodySameVerdict ==
  \A t1, t2 \in Threads :
    (/\ pc[t1] = "done" /\ pc[t2] = "done"
     /\ body[t1].kind # "none"
     /\ body[t1] = body[t2]
     /\ (outcome[t1] = "raised") = (outcome[t2] = "raised"))
    => resp[t1] = resp[t2]

\* Two classifier verdicts for one body, side by side.
C6_Witness ==
  /\ pc[1] = "done" /\ pc[2] = "done"
  /\ body[1] = FeverFalseTemp39 /\ body[2] = FeverFalseTemp39
  /\ outcome[1] = "returned" /\ outcome[2] = "returned"
  /\ resp[1].kind = "classifier"

\* C7 as stated: a body that is not JSON is answered 200 with the verdict
\* of the body {}.
C7_MalformedTolerated ==
  \A t \in Threads :
    (pc[t] = "done" /\ body[t] = MalformedBody)
    => /\ resp[t].status = 200
       /\ resp[t].kind \in {"classifier", "heuristic"}
       /\ resp[t].kind = "heuristic"
            => resp[t] = heuristic_response(Features(Obj(EmptyObj)))

\* C8: of two heuristic verdicts, the one for the larger pulse has the larger
\* or equal pulse contribution, and the one for the larger temperature the
\* larger or equal temperature contribution.
C8_Monotone ==
  \A t1, t2 \in Threads :
    (/\ Scored(t1) /\ resp[t1].kind = "heuristic"
     /\ Scored(t2) /\ resp[t2].kind = "heuristic")
    => LET f1 == Features(Data(t1))
           f2 == Features(Data(t2))
       IN  /\ f1.pulse <= f2.pulse
                => resp[t1].details.w_pulse <= resp[t2].details.w_pulse
           /\ (~f1.temp_c.nan /\ ~f2.temp_c.nan /\ f1.temp_c.v <= f2.temp_c.v)
                => resp[t1].details.w_temperature <= resp[t2].details.w_temperature

\* Pulse 99 at 38.9 degrees beside pulse 100 at 39.0 degrees: both
\* contributions step up.
C8_Witness ==
  /\ Scored(1) /\ resp[1].kind = "heuristic"
  /\ Scored(2) /\ resp[2].kind = "heuristic"
  /\ Features(Data(1)).pulse = 99 /\ Features(Data(2)).pulse = 100
  /\ Features(Data(1)).temp_c = Flt(389) /\ Features(Data(2)).temp_c = Flt(390)
  /\ resp[1].details.w_pulse < resp[2].details.w_pulse
  /\ resp[1].details.w_temperature < resp[2].details.w_temperature

\* C9 as stated: scenario 1 on the heuristic path has zero pulse and
\* temperature contributions, a probability made of the young-age bonus, and
\* the label Low.
C9_Original ==
  \A t \in Threads :
    (Scored(t) /\ body[t] = Scenario1 /\ resp[t].kind = "heuristic")
    => /\ resp[t].details.w_pulse = 0
       /\ resp[t].details.w_temperature = 0
       /\ resp[t].prob = resp[t].details.w_young_age
       /\ resp[t].class_name = "Low"

\* C9, amended: scenario 1 on the heuristic path has zero temperature
\* contribution and zero young-age bonus (age 8 is above 6), a pulse
\* contribution of 0.05 (pulse 90 is in the 90-99 band), a probability of
\* 0.05 made of the pulse contribution alone, and the label Low.
C9_Scenario1 ==
  \A t \in Threads :
    (Scored(t) /\ body[t] = Scenario1 /\ resp[t].kind = "heuristic")
    => /\ resp[t].details.w_temperature = 0
       /\ resp[t].details.w_young_age = 0
       /\ resp[t].details.w_pulse = 5000
       /\ resp[t].prob = 5000
       /\ resp[t].risk = 5000
       /\ resp[t].class_name = "Low"

C9_Witness ==
  \E t \in Threads :
    Scored(t) /\ body[t] = Scenario1 /\ resp[t].kind = "heuristic"

\* The weight of each named contribution.
C10_Weight ==
  [w_temperature |-> 45000, w_fever_flag |-> 5000, w_pallor |-> 20000,
   w_bruises |-> 20000, w_weight_loss |-> 20000, w_pulse |-> 25000,
   w_young_age |-> 5000, w_fatigue |-> 5000, w_night_sweats |-> 5000,
   w_infections |-> 10000, w_bone_pain |-> 15000]

\* C10 as stated: every contribution of a heuristic verdict lies between 0
\* and the weight of its feature.
C10_ContributionsBounded ==
  \A t \in Threads :
    (Scored(t) /\ resp[t].kind = "heuristic")
    => \A n \in ContribNames :
         0 <= resp[t].details[n] /\ resp[t].details[n] <= C10_Weight[n]

====
